---- MODULE Spec2Model ----
(***************************************************************************)
(* Diagram extraction of the media bridge (src/media_bridge/app.py):       *)
(* _expand_downloaded_file on a PDF, _extract_diagrams_from_pdf page by    *)
(* page (threshold mask, text erase, contours, filters, padding, overlap   *)
(* deduplication, crop naming) and the page-render fallback.               *)
(*                                                                         *)
(* Numbers.  All pixel arithmetic of the source is on Python ints.  The    *)
(* float comparisons are modelled as exact rational comparisons:           *)
(*   area / page_area < 0.02   as   area * 100 < 2 * page_area             *)
(*   _iou(b, k) > 0.45         as   inter * 100 > 45 * union               *)
(*   int(0.04 * h)             as   (4 * h) \div 100                       *)
(* For the integer sizes of a page raster the nearest double of each       *)
(* quotient or product falls on the same side of the threshold as the      *)
(* exact rational (the gap to the threshold is at least 1/(100*w*h), far   *)
(* above one ulp), so both agree.                                          *)
(***************************************************************************)
EXTENDS Integers, Sequences, FiniteSets, TLC

VARIABLES
    pc,                 \* position in _expand_downloaded_file / _extract_diagrams_from_pdf
    PDF_EXTRACT_MODE,   \* module constant read from the environment (line 45)
    source_name,        \* the file's name, a sequence of characters
    page_count,         \* doc.page_count
    page_idx,           \* loop variable of line 178
    page,               \* the page loaded at line 179: raster, page rect, text blocks
    mask,               \* the candidate mask, as the set of boxes of its 255 pixels
    contours,           \* bounding rectangles of the contours found at line 211
    boxes,              \* line 213
    kept,               \* line 235
    output,             \* line 176
    images,             \* the list _expand_downloaded_file returns
    raised,             \* status code of the HTTPException raised, 0 when none
    tmp,                \* temporary files created so far (NamedTemporaryFile)
    scope,              \* the inputs this behaviour draws from (see InitWith)
    run,                \* which run of the extractor on this document this is
    doc,                \* rerun bookkeeping: the pages and contours of the first run
    first,              \* rerun bookkeeping: kept boxes and names of the first run
    call,               \* one call of _iou with its arguments and, once made, its result
    handler,            \* the request handler at work: notion_file_uploads or drive_upload_public
    hpc,                \* position in the handler
    todo,               \* files of the request not handled yet
    cur,                \* the handler's locals for the file at hand
    live,               \* temporary files that exist
    dirs,               \* temporary directories that exist
    made,               \* temporary files and directories created so far
    log,                \* the requests sent to the storage service, in order
    results,            \* line 420 / line 527
    exc,                \* status of the exception on its way through the finally clause, 0 when none
    status              \* status of the HTTPException the handler ended with, 0 when none

\* the state of _expand_downloaded_file and the extractor
extractor == <<pc, PDF_EXTRACT_MODE, source_name, page_count, page_idx, page, mask,
               contours, boxes, kept, output, images, raised, tmp, scope, run, doc, first>>
\* the state of the request handlers
bridge == <<handler, hpc, todo, cur, live, dirs, made, log, results, exc, status>>

vars == <<pc, PDF_EXTRACT_MODE, source_name, page_count, page_idx, page, mask,
          contours, boxes, kept, output, images, raised, tmp, scope, run, doc, first,
          call, handler, hpc, todo, cur, live, dirs, made, log, results, exc, status>>

(***************************************************************************)
(* Program constants.                                                      *)
(***************************************************************************)
MAX_SLIDE_PAGES == 80
InkThreshold == 245
TextMargin == 8
MorphKernel == 5
CloseIterations == 2
RatioMinPct == 2
RatioMaxPct == 90
MinBoxWidth == 140
MinBoxHeight == 100
HeaderPct == 4
FooterPct == 98
PadPct == 1
MinPad == 8
IouMaxPct == 45
MaxKept == 6
PageDigits == 3
IndexDigits == 2
White == 255
MaskOn == 255

(***************************************************************************)
(* Bounds of the model.                                                    *)
(***************************************************************************)
MaxPages == 3
MaxFigures == 7
MaxCoord == 2
MaxFiles == 2
MaxItems == 2

Max(a, b) == IF a >= b THEN a ELSE b
Min(a, b) == IF a <= b THEN a ELSE b

\* int(n / d) of Python for an exact quotient n/d, d > 0: truncation toward zero.
Trunc(n, d) == IF n >= 0 THEN n \div d ELSE -((-n) \div d)

clamp(v, low, high) == Max(low, Min(v, high))

SetMin(S) == CHOOSE m \in S : \A n \in S : m <= n
SetMax(S) == CHOOSE m \in S : \A n \in S : m >= n

(***************************************************************************)
(* Geometry.  A box is (x0, y0, x1, y1) as in the source's tuples; a       *)
(* contour is represented by what cv2.boundingRect returns for it.         *)
(***************************************************************************)
Box(x0, y0, x1, y1) == [x0 |-> x0, y0 |-> y0, x1 |-> x1, y1 |-> y1]
Cnt(x, y, bw, bh) == [x |-> x, y |-> y, bw |-> bw, bh |-> bh]

Width(b) == b.x1 - b.x0
Height(b) == b.y1 - b.y0
\* key of the sort at line 234
Area(b) == (b.x1 - b.x0) * (b.y1 - b.y0)

Inside(x, y, r) == r.x0 <= x /\ x < r.x1 /\ r.y0 <= y /\ y < r.y1

(***************************************************************************)
(* Pages.  A raster is white (255) except for rectangular patches of one   *)
(* gray level each.  A figure is one connected shape, a rectangle or two   *)
(* bars that meet in a corner, so that bounding rectangles of different    *)
(* figures can nest and overlap as they do on real pages.  Coordinates of  *)
(* text blocks are page units (points); the rasters are 480 x 480 pt at    *)
(* 1000 x 1000 px and 612 x 792 pt at 1275 x 1650 px (150 dpi).            *)
(***************************************************************************)
Patch(x0, y0, x1, y1, g) == [x0 |-> x0, y0 |-> y0, x1 |-> x1, y1 |-> y1, g |-> g]
Block(type, x0, y0, x1, y1) == [type |-> type, bbox |-> <<x0, y0, x1, y1>>]
Page(w, h, pw, ph, patches, blocks) ==
    [w |-> w, h |-> h, page_w |-> pw, page_h |-> ph, patches |-> patches, blocks |-> blocks]

NoPage == Page(0, 0, 1, 1, {}, <<>>)

\* a filled rectangle with bounding rectangle (x, y, bw, bh)
Solid(x, y, bw, bh) == {Patch(x, y, x + bw, y + bh, 0)}
\* a bar along the right edge and one along the bottom edge of (x, y, bw, bh)
RightBottom(x, y, bw, bh, t) ==
    {Patch(x + bw - t, y, x + bw, y + bh, 0), Patch(x, y + bh - t, x + bw - t, y + bh, 0)}
\* a bar along the top edge and one along the left edge of (x, y, bw, bh)
TopLeft(x, y, bw, bh, t) ==
    {Patch(x, y, x + bw, y + t, 0), Patch(x, y + t, x + t, y + bh, 0)}

Figures ==
    << Solid(20, 40, 200, 100),            \* four figures in a row right below the header band
       TopLeft(260, 40, 200, 100, 10),
       Solid(500, 40, 200, 100),
       Solid(740, 40, 200, 100),
       Solid(260, 300, 200, 100),
       RightBottom(0, 40, 1000, 900, 40),  \* a frame corner spanning 90 % of the page
       RightBottom(280, 40, 200, 100, 10), \* interlocked with the second figure, 20 px to the right
       RightBottom(100, 100, 800, 700, 40),    \* nested frame corners
       RightBottom(200, 200, 600, 550, 40),
       Solid(500, 39, 200, 100),           \* one row into the header band
       Solid(600, 400, 139, 300),          \* a vertical rule
       RightBottom(50, 60, 900, 800, 40),  \* one more nested frame corner
       Solid(500, 881, 200, 100),          \* one row into the footer band
       RightBottom(0, 40, 1000, 901, 40),  \* more than 90 % of the page
       Solid(700, 600, 140, 100) >>        \* less than 2 % of the page

\* figures on and next to the limits of the filters
EdgeFigures ==
    << Solid(20, 40, 200, 100),            \* 2 % of the page, 100 high, top edge at 0.04 h
       RightBottom(0, 80, 1000, 900, 40),  \* 90 % of the page, bottom edge at 0.98 h
       Solid(300, 300, 140, 150),          \* 140 wide
       TopLeft(100, 700, 270, 100, 10),    \* with the next one: padded boxes of IoU 0.45
       RightBottom(210, 700, 270, 100, 10),
       TopLeft(100, 500, 270, 100, 10),    \* with the next one: IoU 181/399, just above
       RightBottom(209, 500, 270, 100, 10),
       Solid(600, 300, 199, 100),          \* 1.99 % of the page
       Solid(500, 39, 200, 101),           \* one row into the header band
       Solid(600, 500, 139, 200),          \* 139 wide
       Solid(740, 150, 205, 99) >>         \* 99 high

EdgePage(S) == Page(1000, 1000, 480, 480, UNION {EdgeFigures[i] : i \in S}, <<>>)

\* a page of figures and no text
FigurePage(S) == Page(1000, 1000, 480, 480, UNION {Figures[i] : i \in S}, <<>>)

\* a paragraph of text, registered as a text block that covers all of its ink
TextPage == Page(1000, 1000, 480, 480, {Patch(100, 100, 400, 200, 0)},
                 <<Block(0, 48, 48, 192, 96)>>)
\* the same ink covered by two text blocks, one of them partly off the page
TwoBlockPage == Page(1000, 1000, 480, 480,
                     {Patch(0, 100, 250, 200, 244), Patch(250, 100, 400, 200, 0)},
                     <<Block(0, -24, 48, 120, 96), Block(0, 120, 48, 192, 96)>>)
\* a paragraph and a figure below it
TextFigurePage == Page(1000, 1000, 480, 480,
                       {Patch(100, 100, 400, 200, 0)} \cup Figures[5],
                       <<Block(0, 48, 48, 192, 96)>>)
\* ink registered as an image block (type 1), which the erase step skips
ImageBlockPage == Page(1000, 1000, 480, 480, Figures[5],
                       <<Block(1, 120, 140, 225, 195)>>)
\* a figure whose upper left part is registered as a text block
PartlyCoveredPage == Page(1000, 1000, 480, 480, {Patch(200, 200, 800, 750, 0)},
                          <<Block(0, 96, 96, 192, 144)>>)
\* a patch just at the threshold (245 is background) on a letter page
LightPage == Page(1275, 1650, 612, 792, {Patch(100, 100, 400, 300, 245)}, <<>>)
LetterFigurePage == Page(1275, 1650, 612, 792, {Patch(100, 66, 500, 400, 244)}, <<>>)

\* a figure under three blocks: a text block that begins left of the page, a text
\* block that lies beyond the page, and an image block
OffPageBlocksPage == Page(1000, 1000, 480, 480, {Patch(200, 200, 800, 750, 0)},
                          <<Block(0, -24, 96, 192, 144), Block(0, 500, 500, 600, 600),
                            Block(1, 240, 240, 288, 288)>>)

TextPages == {TextPage, TwoBlockPage}
OtherPages == {TextFigurePage, ImageBlockPage, PartlyCoveredPage, LightPage, LetterFigurePage,
               OffPageBlocksPage}

(***************************************************************************)
(* The mask (lines 188-205).  A mask is represented by a set of boxes: a   *)
(* pixel is 255 iff it lies in one of them, and 0 otherwise.               *)
(***************************************************************************)
MaskAt(m, x, y) == IF \E b \in m : Inside(x, y, b) THEN MaskOn ELSE 0

\* line 188: the gray level of a pixel
GrayAt(p, x, y) ==
    IF \E q \in p.patches : Inside(x, y, q)
    THEN SetMin({q.g : q \in {r \in p.patches : Inside(x, y, r)}})
    ELSE White

\* line 189: mask = (gray < 245) * 255
Threshold(p) == {Box(q.x0, q.y0, q.x1, q.y1) : q \in {r \in p.patches : r.g < InkThreshold}}

\* a slip of lines 201-204: the margin of 8 pixels left out
TextRectNoMargin(p, block) ==
    LET x0 == block.bbox[1]
        y0 == block.bbox[2]
        x1 == block.bbox[3]
        y1 == block.bbox[4]
    IN  Box(clamp(Trunc(x0 * p.w, p.page_w), 0, p.w),
            clamp(Trunc(y0 * p.h, p.page_h), 0, p.h),
            clamp(Trunc(x1 * p.w, p.page_w), 0, p.w),
            clamp(Trunc(y1 * p.h, p.page_h), 0, p.h))

\* lines 200-204: the pixel rectangle zeroed for a text block
TextRect(p, block) ==
    LET x0 == block.bbox[1]
        y0 == block.bbox[2]
        x1 == block.bbox[3]
        y1 == block.bbox[4]
    IN  Box(clamp(Trunc(x0 * p.w, p.page_w) - TextMargin, 0, p.w),
            clamp(Trunc(y0 * p.h, p.page_h) - TextMargin, 0, p.h),
            clamp(Trunc(x1 * p.w, p.page_w) + TextMargin, 0, p.w),
            clamp(Trunc(y1 * p.h, p.page_h) + TextMargin, 0, p.h))

Empty(b) == b.x0 >= b.x1 \/ b.y0 >= b.y1

\* the pixels of box b outside the slice r, as boxes: above, below, left, right
Outside(b, r) ==
    IF Empty(r) \/ r.x0 >= b.x1 \/ r.x1 <= b.x0 \/ r.y0 >= b.y1 \/ r.y1 <= b.y0 THEN {b}
    ELSE LET top == Max(b.y0, r.y0)
             bottom == Min(b.y1, r.y1)
         IN  {c \in {Box(b.x0, b.y0, b.x1, top), Box(b.x0, bottom, b.x1, b.y1),
                     Box(b.x0, top, Max(b.x0, r.x0), bottom),
                     Box(Min(b.x1, r.x1), top, b.x1, bottom)} : ~Empty(c)}

\* line 205: mask[py0:py1, px0:px1] = 0
ZeroSlice(m, r) == UNION {Outside(b, r) : b \in m}

\* a slip of line 198: `==` for `!=`
IsTextBlockInverted(block) == block.type # 0

\* line 198
IsTextBlock(block) == block.type = 0

\* lines 197-205, blocks i.. of the page
RECURSIVE EraseText(_, _, _)
EraseText(p, m, i) ==
    IF i > Len(p.blocks) THEN m
    ELSE IF ~IsTextBlock(p.blocks[i]) THEN EraseText(p, m, i + 1)
    ELSE EraseText(p, ZeroSlice(m, TextRect(p, p.blocks[i])), i + 1)

AllZero(m) == m = {}

(***************************************************************************)
(* Lines 207-211: morphological close and open, then cv2.findContours      *)
(* with RETR_EXTERNAL.  The vision library is not part of the repository.  *)
(* For the masks of this model (MaskAssumption: every box at least 5       *)
(* pixels wide and high, any two boxes touching or at least 9 pixels       *)
(* apart, every box on the image border or at least 5 pixels from it, no   *)
(* region enclosed by another) closing with two iterations of a 5x5 kernel *)
(* and opening with one leave the mask as it is, and there is one          *)
(* external contour per 8-connected region.  The order of the contours is  *)
(* not documented: the model takes raster-scan order or its reverse.       *)
(***************************************************************************)
MorphReach == ((MorphKernel - 1) \div 2) * CloseIterations

\* two boxes whose pixels overlap or are 8-neighbours
Touch(a, b) == a.x0 <= b.x1 /\ b.x0 <= a.x1 /\ a.y0 <= b.y1 /\ b.y0 <= a.y1
\* two boxes that closing cannot join
Apart(a, b) == \/ a.x0 - b.x1 > 2 * MorphReach \/ b.x0 - a.x1 > 2 * MorphReach
               \/ a.y0 - b.y1 > 2 * MorphReach \/ b.y0 - a.y1 > 2 * MorphReach

MaskAssumed(p, m) ==
    /\ \A b \in m : /\ Width(b) >= MorphKernel /\ Height(b) >= MorphKernel
                    /\ b.x0 = 0 \/ b.x0 > MorphReach
                    /\ b.y0 = 0 \/ b.y0 > MorphReach
                    /\ b.x1 = p.w \/ p.w - b.x1 > MorphReach
                    /\ b.y1 = p.h \/ p.h - b.y1 > MorphReach
    /\ \A a, b \in m : Touch(a, b) \/ Apart(a, b)

\* the 8-connected region of the mask that holds the boxes C
RECURSIVE Region(_, _)
Region(m, C) ==
    LET N == {b \in m : \E a \in C : Touch(a, b)}
    IN  IF N = C THEN C ELSE Region(m, N)

Regions(m) == {Region(m, {b}) : b \in m}

\* cv2.boundingRect of the contour of a region
BoundingRect(C) ==
    LET x == SetMin({b.x0 : b \in C})
        y == SetMin({b.y0 : b \in C})
    IN  Cnt(x, y, SetMax({b.x1 : b \in C}) - x, SetMax({b.y1 : b \in C}) - y)

\* the first pixel <<row, column>> of a region in raster-scan order
FirstPixel(C) ==
    LET y == SetMin({b.y0 : b \in C})
    IN  <<y, SetMin({b.x0 : b \in {c \in C : c.y0 = y}})>>

ScannedBefore(r, q) ==
    \/ FirstPixel(r)[1] < FirstPixel(q)[1]
    \/ FirstPixel(r)[1] = FirstPixel(q)[1] /\ FirstPixel(r)[2] <= FirstPixel(q)[2]

RECURSIVE ScanOrder(_)
ScanOrder(Rs) ==
    IF Rs = {} THEN <<>>
    ELSE LET r == CHOOSE r \in Rs : \A q \in Rs : ScannedBefore(r, q)
         IN  <<BoundingRect(r)>> \o ScanOrder(Rs \ {r})

Reverse(s) == [i \in 1..Len(s) |-> s[Len(s) + 1 - i]]

\* the lists of contour rectangles findContours may return for a mask
ContourLists(m) == {ScanOrder(Regions(m)), Reverse(ScanOrder(Regions(m)))}

(***************************************************************************)
(* Lines 212-231: the filters and the padding of one contour.              *)
(***************************************************************************)
\* a slip of line 218: the limits themselves rejected
RatioRejectedAtLimit(p, c) ==
    \/ (c.bw * c.bh) * 100 <= RatioMinPct * (p.w * p.h)
    \/ (c.bw * c.bh) * 100 >= RatioMaxPct * (p.w * p.h)

\* line 218, with ratio = float(bw * bh) / float(w * h)
RatioRejected(p, c) ==
    \/ (c.bw * c.bh) * 100 < RatioMinPct * (p.w * p.h)
    \/ (c.bw * c.bh) * 100 > RatioMaxPct * (p.w * p.h)

\* a slip of line 220: `and` for `or`
SizeRejectedBothSmall(c) == c.bw < MinBoxWidth /\ c.bh < MinBoxHeight

\* line 220
SizeRejected(c) == c.bw < MinBoxWidth \/ c.bh < MinBoxHeight

\* int(0.04 * h) and int(0.98 * h)
HeaderLimit(p) == (HeaderPct * p.h) \div 100
FooterLimit(p) == (FooterPct * p.h) \div 100

\* a slip of line 223: the footer test dropped
BandRejectedHeaderOnly(p, c) == c.y < HeaderLimit(p)

\* line 223
BandRejected(p, c) == c.y < HeaderLimit(p) \/ (c.y + c.bh) > FooterLimit(p)

\* lines 225-226
PadX(p) == Max(MinPad, (PadPct * p.w) \div 100)
PadY(p) == Max(MinPad, (PadPct * p.h) \div 100)

\* a slip of lines 227-230: the padded box is not clamped
PaddedUnclamped(p, c) ==
    Box(c.x - PadX(p), c.y - PadY(p), c.x + c.bw + PadX(p), c.y + c.bh + PadY(p))

\* lines 227-231
Padded(p, c) ==
    Box(clamp(c.x - PadX(p), 0, p.w),
        clamp(c.y - PadY(p), 0, p.h),
        clamp(c.x + c.bw + PadX(p), 0, p.w),
        clamp(c.y + c.bh + PadY(p), 0, p.h))

Accepted(p, c) == ~RatioRejected(p, c) /\ ~SizeRejected(c) /\ ~BandRejected(p, c)

\* lines 213-231, contours i.. of the list
RECURSIVE FilterBoxes(_, _, _)
FilterBoxes(p, cs, i) ==
    IF i > Len(cs) THEN <<>>
    ELSE IF Accepted(p, cs[i]) THEN <<Padded(p, cs[i])>> \o FilterBoxes(p, cs, i + 1)
    ELSE FilterBoxes(p, cs, i + 1)

(***************************************************************************)
(* _iou (lines 148-159), as the exact fraction num / den.                  *)
(***************************************************************************)
\* a slip of line 153: the intersection's width and height not floored at 0
iouUnfloored(a, b) ==
    LET ix0 == Max(a.x0, b.x0)
        iy0 == Max(a.y0, b.y0)
        ix1 == Min(a.x1, b.x1)
        iy1 == Min(a.y1, b.y1)
        inter == (ix1 - ix0) * (iy1 - iy0)
        a_area == Max(1, (a.x1 - a.x0) * (a.y1 - a.y0))
        b_area == Max(1, (b.x1 - b.x0) * (b.y1 - b.y0))
    IN  IF inter <= 0 THEN [num |-> 0, den |-> 1]
        ELSE [num |-> inter, den |-> a_area + b_area - inter]

iou(a, b) ==
    LET ix0 == Max(a.x0, b.x0)
        iy0 == Max(a.y0, b.y0)
        ix1 == Min(a.x1, b.x1)
        iy1 == Min(a.y1, b.y1)
        iw == Max(0, ix1 - ix0)
        ih == Max(0, iy1 - iy0)
        inter == iw * ih
        a_area == Max(1, (a.x1 - a.x0) * (a.y1 - a.y0))
        b_area == Max(1, (b.x1 - b.x0) * (b.y1 - b.y0))
    IN  IF inter <= 0 THEN [num |-> 0, den |-> 1]
        ELSE [num |-> inter, den |-> a_area + b_area - inter]

\* a slip of line 237: the comparison turned round
OverlapsBelow(b, k) == iou(b, k).num * 100 < IouMaxPct * iou(b, k).den

\* line 237: _iou(b, k) > 0.45
Overlaps(b, k) == iou(b, k).num * 100 > IouMaxPct * iou(b, k).den

(***************************************************************************)
(* Lines 234-241: stable sort by area, largest first, then the greedy      *)
(* loop.  sorted(..., reverse=True) keeps equal keys in their input order. *)
(***************************************************************************)
\* a slip of line 234: boxes of equal area change places (a sort that is not stable)
RECURSIVE InsertBeforeEqual(_, _)
InsertBeforeEqual(s, b) ==
    IF s = <<>> THEN <<b>>
    ELSE IF Area(Head(s)) > Area(b) THEN <<Head(s)>> \o InsertBeforeEqual(Tail(s), b)
    ELSE <<b>> \o s

\* the place of box b in the descending list s: behind every box at least as large
RECURSIVE InsertByArea(_, _)
InsertByArea(s, b) ==
    IF s = <<>> THEN <<b>>
    ELSE IF Area(Head(s)) >= Area(b) THEN <<Head(s)>> \o InsertByArea(Tail(s), b)
    ELSE <<b>> \o s

\* a slip of line 234: reverse=True left out, the smallest box first
RECURSIVE SortedAscending(_)
SortedAscending(bs) ==
    IF bs = <<>> THEN <<>>
    ELSE LET s == SortedAscending(SubSeq(bs, 1, Len(bs) - 1))
             b == bs[Len(bs)]
             n == Cardinality({i \in DOMAIN s : Area(s[i]) <= Area(b)})
         IN  SubSeq(s, 1, n) \o <<b>> \o SubSeq(s, n + 1, Len(s))

RECURSIVE SortedByArea(_)
SortedByArea(bs) ==
    IF bs = <<>> THEN <<>>
    ELSE InsertByArea(SortedByArea(SubSeq(bs, 1, Len(bs) - 1)), bs[Len(bs)])

\* lines 236-241: the loop over the sorted boxes from index i with `kept` so far
RECURSIVE KeepLoop(_, _, _)
KeepLoop(bs, i, k) ==
    IF i > Len(bs) THEN k
    ELSE IF \E j \in 1..Len(k) : Overlaps(bs[i], k[j]) THEN KeepLoop(bs, i + 1, k)
    ELSE IF Len(k) + 1 >= MaxKept THEN Append(k, bs[i])
    ELSE KeepLoop(bs, i + 1, Append(k, bs[i]))

Deduplicate(bs) == KeepLoop(SortedByArea(bs), 1, <<>>)

(***************************************************************************)
(* Names.  A file name is a sequence of characters (without directory      *)
(* separators); the generated names are strings.                           *)
(***************************************************************************)
DeckPdf == <<"d", "e", "c", "k", ".", "p", "d", "f">>
Dot == <<".">>
Deck == <<"d", "e", "c", "k">>
TwoDots == <<"a", ".", "b", ".", "p", "d", "f">>
DotPdf == <<".", "p", "d", "f">>
SourceNames(sc) == CASE sc \in {"page", "edge"} -> {DeckPdf}
                     [] sc = "document" -> {DeckPdf, Dot, Deck, TwoDots, DotPdf}
                     [] sc = "rerun" -> {DeckPdf, Dot}

RECURSIVE Join(_)
Join(cs) == IF cs = <<>> THEN "" ELSE Head(cs) \o Join(Tail(cs))

\* str.rfind("."): the last index (from 1) of a dot, 0 when there is none
LastDot(cs) == IF \E i \in DOMAIN cs : cs[i] = "." 
               THEN SetMax({i \in DOMAIN cs : cs[i] = "."}) ELSE 0

\* Path(name).name: "." is the current directory and has no final component
FinalComponent(cs) == IF cs = Dot THEN <<>> ELSE cs

\* Path(name).stem: the final component up to its last dot, when that dot is
\* neither its first nor its last character
PathStem(cs) ==
    LET name == FinalComponent(cs)
        i == LastDot(name)
    IN  IF 1 < i /\ i < Len(name) THEN SubSeq(name, 1, i - 1) ELSE name

\* lines 124 and 175: Path(source_name).stem or "slides"
Base(cs) == IF PathStem(cs) = <<>> THEN "slides" ELSE Join(PathStem(cs))

Digit(d) == CASE d = 0 -> "0" [] d = 1 -> "1" [] d = 2 -> "2" [] d = 3 -> "3" [] d = 4 -> "4"
              [] d = 5 -> "5" [] d = 6 -> "6" [] d = 7 -> "7" [] d = 8 -> "8" [] d = 9 -> "9"

RECURSIVE Decimal(_)
Decimal(n) == IF n < 10 THEN Digit(n) ELSE Decimal(n \div 10) \o Digit(n % 10)

RECURSIVE PadLeft(_, _)
PadLeft(s, width) == IF Len(s) >= width THEN s ELSE PadLeft("0" \o s, width)

\* format spec 0<width>d for n >= 0
ZeroPadded(n, width) == PadLeft(Decimal(n), width)

\* a slip of line 253: the page index as it is, counted from 0
DiagramNameFromZero(base, pidx, idx) ==
    base \o "_p" \o ZeroPadded(pidx, PageDigits) \o "_diagram_"
         \o ZeroPadded(idx + 1, IndexDigits) \o ".png"

\* a slip of line 253: the diagrams numbered by a counter that outlives the page
DiagramNameByCounter(base, pidx, idx) ==
    base \o "_p" \o ZeroPadded(pidx + 1, PageDigits) \o "_diagram_"
         \o ZeroPadded(tmp + idx + 1, IndexDigits) \o ".png"

\* line 253
DiagramName(base, pidx, idx) ==
    base \o "_p" \o ZeroPadded(pidx + 1, PageDigits) \o "_diagram_"
         \o ZeroPadded(idx + 1, IndexDigits) \o ".png"

\* line 135
SlideName(base, idx) == base \o "_slide_" \o ZeroPadded(idx + 1, PageDigits) \o ".png"

Image(path, name) == [path |-> path, name |-> name, mime_type |-> "image/png"]

\* line 244-245: crop = img[y0:y1, x0:x1]; crop.size, for box coordinates >= 0
CropSize(p, b) ==
    Max(0, Min(b.y1, p.h) - Min(b.y0, p.h)) * Max(0, Min(b.x1, p.w) - Min(b.x0, p.w))

\* a slip of line 250: each entry put in front of the entries of the page so far
RECURSIVE CropsNewestFirst(_, _, _, _, _, _)
CropsNewestFirst(p, k, base, pidx, idx, t) ==
    IF idx >= Len(k) THEN <<>>
    ELSE IF CropSize(p, k[idx + 1]) = 0 THEN CropsNewestFirst(p, k, base, pidx, idx + 1, t)
    ELSE CropsNewestFirst(p, k, base, pidx, idx + 1, t + 1)
         \o <<Image(t + 1, DiagramName(base, pidx, idx))>>

\* lines 243-256: the entries appended for kept boxes idx.. (idx from 0), when
\* t temporary files exist already
RECURSIVE Crops(_, _, _, _, _, _)
Crops(p, k, base, pidx, idx, t) ==
    IF idx >= Len(k) THEN <<>>
    ELSE IF CropSize(p, k[idx + 1]) = 0 THEN Crops(p, k, base, pidx, idx + 1, t)
    ELSE <<Image(t + 1, DiagramName(base, pidx, idx))>>
         \o Crops(p, k, base, pidx, idx + 1, t + 1)

\* lines 126-139: the images of _render_pdf_to_pngs for pages idx.. (idx from 0)
RECURSIVE Slides(_, _, _, _)
Slides(base, n, idx, t) ==
    IF idx >= n THEN <<>>
    ELSE <<Image(t + 1, SlideName(base, idx))>> \o Slides(base, n, idx + 1, t + 1)

(***************************************************************************)
(* The state machine.  One document (a PDF) is expanded by                 *)
(* _expand_downloaded_file.  `scope` names the inputs a behaviour draws    *)
(* from:                                                                   *)
(*   "page"      a document of one page, every candidate contour;          *)
(*   "document"  documents of several pages, a few candidate contours;     *)
(*   "edge"      a document of one page with figures on the filters' limits;*)
(*   "rerun"     the caller expands the same document twice (the same file *)
(*               listed twice in one request): the pages and contours of   *)
(*               the first run are recorded and presented again in the     *)
(*               second, the rasterizer and the vision library being       *)
(*               functions of the document.                                *)
(***************************************************************************)
Runs(sc) == IF sc = "rerun" THEN 2 ELSE 1

PageCounts(sc) == CASE sc = "page" -> {0, 1, MAX_SLIDE_PAGES + 1}
                    [] sc = "edge" -> {1}
                    [] OTHER -> (0..MaxPages) \cup {MAX_SLIDE_PAGES + 1}

\* the figures (indices of Figures) a page may show
FigurePool(sc) == CASE sc = "page" -> 1..Len(Figures)
                    [] sc = "document" -> {1, 2, 6, 7, 10}
                    [] sc = "rerun" -> {2, 7}

Pages(sc) ==
    IF sc = "edge"
    THEN {EdgePage(S) : S \in {T \in SUBSET (1..Len(EdgeFigures)) : Cardinality(T) <= MaxFigures}}
    ELSE
    {FigurePage(S) : S \in {T \in SUBSET FigurePool(sc) : Cardinality(T) <= MaxFigures}}
    \cup TextPages \cup (IF sc = "rerun" THEN {TextFigurePage, ImageBlockPage, PartlyCoveredPage} ELSE OtherPages)

\* what the second run is compared with
NoFirst == [kept |-> <<>>, names |-> <<>>]

\* no call of _iou under way
NoCall == [a |-> Box(0, 0, 0, 0), b |-> Box(0, 0, 0, 0), done |-> FALSE,
           ab |-> [num |-> 0, den |-> 1], ba |-> [num |-> 0, den |-> 1]]

\* no file at hand; `file` counts the files begun, `item` the items uploaded
NoFile == [file |-> 0, kind |-> "none", tmp_path |-> 0, expanded |-> <<>>,
           cleanup_files |-> {}, cleanup_dirs |-> {}, item |-> 0, upload_id |-> ""]

\* no request being handled
BridgeIdle ==
    /\ handler = "none"
    /\ hpc = "idle"
    /\ todo = 0
    /\ cur = NoFile
    /\ live = {}
    /\ dirs = {}
    /\ made = 0
    /\ log = <<>>
    /\ results = <<>>
    /\ exc = 0
    /\ status = 0

\* no document being expanded
ExtractorIdle(sc) ==
    /\ scope = sc
    /\ pc = "idle"
    /\ PDF_EXTRACT_MODE = "diagram"
    /\ source_name = DeckPdf
    /\ page_count = 0
    /\ page_idx = 0
    /\ page = NoPage
    /\ mask = {}
    /\ contours = <<>>
    /\ boxes = <<>>
    /\ kept = <<>>
    /\ output = <<>>
    /\ images = <<>>
    /\ raised = 0
    /\ tmp = 0
    /\ run = 1
    /\ doc = <<>>
    /\ first = NoFirst

InitWith(sc) ==
    /\ scope = sc
    /\ pc = "expand"
    /\ PDF_EXTRACT_MODE \in {"diagram", "page"}
    /\ source_name \in SourceNames(sc)
    /\ page_count \in PageCounts(sc)
    /\ page_idx = 0
    /\ page = NoPage
    /\ mask = {}
    /\ contours = <<>>
    /\ boxes = <<>>
    /\ kept = <<>>
    /\ output = <<>>
    /\ images = <<>>
    /\ raised = 0
    /\ tmp = 0
    /\ run = 1
    /\ doc = <<>>
    /\ first = NoFirst
    /\ call = NoCall
    /\ BridgeIdle

Init == InitWith("document")
InitPage == InitWith("page")
InitTwice == InitWith("rerun")
InitEdge == InitWith("edge")

\* a slip of lines 167-171: the page limit left out
PageCountErrorNoLimit == IF page_count = 0 THEN 400 ELSE 0

\* lines 115-121 and 165-171
PageCountError == IF page_count = 0 THEN 400
                  ELSE IF page_count > MAX_SLIDE_PAGES THEN 413 ELSE 0

\* lines 304-306 and 312-313: page mode
ExpandPageMode ==
    /\ pc = "expand"
    /\ PDF_EXTRACT_MODE = "page"
    /\ IF PageCountError # 0
       THEN /\ pc' = "raised"
            /\ raised' = PageCountError
            /\ UNCHANGED <<images, tmp>>
       ELSE /\ pc' = "expanded"
            /\ images' = Slides(Base(source_name), page_count, 0, tmp)
            /\ tmp' = tmp + page_count
            /\ UNCHANGED raised
    /\ UNCHANGED <<PDF_EXTRACT_MODE, source_name, page_count, page_idx, page, mask,
                   contours, boxes, kept, output, scope, run, doc, first>>
    /\ UNCHANGED <<call, bridge>>

\* lines 307-308 and 163-176: diagram mode enters _extract_diagrams_from_pdf
OpenDocument ==
    /\ pc = "expand"
    /\ PDF_EXTRACT_MODE # "page"
    /\ IF PageCountError # 0
       THEN pc' = "raised" /\ raised' = PageCountError
       ELSE pc' = "load" /\ UNCHANGED raised
    /\ output' = <<>>
    /\ page_idx' = 0
    /\ UNCHANGED <<PDF_EXTRACT_MODE, source_name, page_count, page, mask, contours,
                   boxes, kept, images, tmp, scope, run, doc, first>>
    /\ UNCHANGED <<call, bridge>>

\* lines 178-188: the next page is rasterized
LoadPage ==
    /\ pc = "load"
    /\ page_idx < page_count
    /\ IF run = 1 THEN page' \in Pages(scope) ELSE page' = doc[page_idx + 1].page
    /\ pc' = "mask"
    /\ UNCHANGED <<PDF_EXTRACT_MODE, source_name, page_count, page_idx, mask, contours,
                   boxes, kept, output, images, raised, tmp, scope, run, doc, first>>
    /\ UNCHANGED <<call, bridge>>

\* lines 189-205
BuildMask ==
    /\ pc = "mask"
    /\ mask' = EraseText(page, Threshold(page), 1)
    /\ pc' = "contours"
    /\ UNCHANGED <<PDF_EXTRACT_MODE, source_name, page_count, page_idx, page, contours,
                   boxes, kept, output, images, raised, tmp, scope, run, doc, first>>
    /\ UNCHANGED <<call, bridge>>

\* lines 207-211
FindContours ==
    /\ pc = "contours"
    /\ IF run = 1 THEN contours' \in ContourLists(mask)
       ELSE contours' = doc[page_idx + 1].contours
    /\ doc' = IF Runs(scope) > 1 /\ run = 1
              THEN Append(doc, [page |-> page, contours |-> contours'])
              ELSE doc
    /\ pc' = "filter"
    /\ UNCHANGED <<PDF_EXTRACT_MODE, source_name, page_count, page_idx, page, mask,
                   boxes, kept, output, images, raised, tmp, scope, run, first>>
    /\ UNCHANGED <<call, bridge>>

\* lines 212-231
CollectBoxes ==
    /\ pc = "filter"
    /\ boxes' = FilterBoxes(page, contours, 1)
    /\ pc' = "dedup"
    /\ UNCHANGED <<PDF_EXTRACT_MODE, source_name, page_count, page_idx, page, mask,
                   contours, kept, output, images, raised, tmp, scope, run, doc, first>>
    /\ UNCHANGED <<call, bridge>>

\* lines 234-241
KeepLargest ==
    /\ pc = "dedup"
    /\ boxes' = SortedByArea(boxes)
    /\ kept' = Deduplicate(boxes)
    /\ pc' = "crop"
    /\ UNCHANGED <<PDF_EXTRACT_MODE, source_name, page_count, page_idx, page, mask,
                   contours, output, images, raised, tmp, scope, run, doc, first>>
    /\ UNCHANGED <<call, bridge>>

\* lines 243-256 and the loop step of line 178.  The page's locals are rebound
\* in the next iteration before they are read: they are cleared here.
CropPage ==
    /\ pc = "crop"
    /\ LET new == Crops(page, kept, Base(source_name), page_idx, 0, tmp)
       IN  /\ output' = output \o new
           /\ tmp' = tmp + Len(new)
           /\ first' = IF Runs(scope) > 1 /\ run = 1
                       THEN [kept |-> Append(first.kept, kept),
                             names |-> first.names \o [i \in 1..Len(new) |-> new[i].name]]
                       ELSE first
    /\ page_idx' = page_idx + 1
    /\ page' = NoPage
    /\ mask' = {}
    /\ contours' = <<>>
    /\ boxes' = <<>>
    /\ kept' = <<>>
    /\ pc' = "load"
    /\ UNCHANGED <<PDF_EXTRACT_MODE, source_name, page_count, images, raised, scope, run, doc>>
    /\ UNCHANGED <<call, bridge>>

\* line 258: the extractor returns output; line 308 binds it to images
ReturnOutput ==
    /\ pc = "load"
    /\ page_idx >= page_count
    /\ images' = output
    /\ pc' = "returned"
    /\ UNCHANGED <<PDF_EXTRACT_MODE, source_name, page_count, page_idx, page, mask, contours,
                   boxes, kept, output, raised, tmp, scope, run, doc, first>>
    /\ UNCHANGED <<call, bridge>>

\* a slip of lines 309-311: the fallback left out
FallbackLeftOut ==
    /\ pc = "returned"
    /\ pc' = "expanded"
    /\ UNCHANGED <<PDF_EXTRACT_MODE, source_name, page_count, page_idx, page, mask, contours,
                   boxes, kept, output, images, raised, tmp, scope, run, doc, first>>
    /\ UNCHANGED <<call, bridge>>

\* lines 309-313: the fallback of diagram mode
FallbackOrReturn ==
    /\ pc = "returned"
    /\ IF images = <<>>
       THEN /\ images' = Slides(Base(source_name), page_count, 0, tmp)
            /\ tmp' = tmp + page_count
       ELSE UNCHANGED <<images, tmp>>
    /\ pc' = "expanded"
    /\ UNCHANGED <<PDF_EXTRACT_MODE, source_name, page_count, page_idx, page, mask, contours,
                   boxes, kept, output, raised, scope, run, doc, first>>
    /\ UNCHANGED <<call, bridge>>

\* the caller expands the same document again (lines 422-430, the next file)
Rerun ==
    /\ pc = "expanded"
    /\ run < Runs(scope)
    /\ run' = run + 1
    /\ pc' = "expand"
    /\ images' = <<>>
    /\ output' = <<>>
    /\ page_idx' = 0
    /\ UNCHANGED <<PDF_EXTRACT_MODE, source_name, page_count, page, mask, contours,
                   boxes, kept, raised, tmp, scope, doc, first>>
    /\ UNCHANGED <<call, bridge>>

Next ==
    \/ ExpandPageMode
    \/ OpenDocument
    \/ LoadPage
    \/ BuildMask
    \/ FindContours
    \/ CollectBoxes
    \/ KeepLargest
    \/ CropPage
    \/ ReturnOutput
    \/ FallbackOrReturn

NextTwice == Next \/ Rerun

Spec == Init /\ [][Next]_vars
SpecPage == InitPage /\ [][Next]_vars
SpecTwice == InitTwice /\ [][NextTwice]_vars
SpecEdge == InitEdge /\ [][Next]_vars

(***************************************************************************)
(* _iou on its own: any two boxes with integer corners, among them boxes   *)
(* without width or height and boxes whose corners are the wrong way round.*)
(***************************************************************************)
IouBoxes == {Box(x0, y0, x1, y1) : x0 \in 0..MaxCoord, y0 \in 0..MaxCoord,
                                   x1 \in 0..MaxCoord, y1 \in 0..MaxCoord}

InitIou ==
    /\ ExtractorIdle("iou")
    /\ BridgeIdle
    /\ call \in {[NoCall EXCEPT !.a = A, !.b = B] : A \in IouBoxes, B \in IouBoxes}

\* lines 148-159, for (a, b) and for (b, a)
CallIou ==
    /\ scope = "iou"
    /\ ~call.done
    /\ call' = [call EXCEPT !.done = TRUE,
                            !.ab = iou(call.a, call.b),
                            !.ba = iou(call.b, call.a)]
    /\ UNCHANGED <<extractor, bridge>>

NextIou == CallIou

SpecIou == InitIou /\ [][NextIou]_vars

(***************************************************************************)
(* The request handlers notion_file_uploads (lines 406-479) and            *)
(* drive_upload_public (lines 482-600).  A temporary file or directory is  *)
(* a number; `made` numbers them in the order of creation.  The storage    *)
(* services answer as they like: every status and id is an input.          *)
(***************************************************************************)
Statuses == {200, 400}
UploadIds == {"", "id"}

Request(op, st, id) ==
    [op |-> op, file |-> cur.file, item |-> cur.item + 1, status |-> st, id |-> id]

InitUpload ==
    /\ ExtractorIdle("upload")
    /\ call = NoCall
    /\ handler \in {"notion", "drive"}
    /\ hpc = "start"
    /\ todo \in 0..MaxFiles
    /\ cur = NoFile
    /\ live = {}
    /\ dirs = {}
    /\ made = 0
    /\ log = <<>>
    /\ results = <<>>
    /\ exc = 0
    /\ status = 0

\* an HTTPException that leaves the handler outside any try
Raise(code) == hpc' = "raised" /\ status' = code

\* lines 417-420 and 491-495: the token, then the list of files
Begin ==
    /\ hpc = "start"
    /\ \E token \in BOOLEAN :
          IF ~token THEN Raise(401)
          ELSE IF todo = 0 THEN Raise(400)
          ELSE /\ hpc' = IF handler = "drive" THEN "folder" ELSE "file"
               /\ UNCHANGED status
    /\ UNCHANGED <<handler, todo, cur, live, dirs, made, log, results, exc>>
    /\ UNCHANGED <<extractor, call>>

\* lines 500-525: the folder is looked up and, when there is none, created
FindFolder ==
    /\ hpc = "folder"
    /\ \E st \in Statuses, found \in BOOLEAN, created \in Statuses :
          IF st >= 400
          THEN /\ log' = Append(log, Request("list", st, ""))
               /\ Raise(st)
          ELSE IF found
          THEN /\ log' = Append(log, Request("list", st, "id"))
               /\ hpc' = "file"
               /\ UNCHANGED status
          ELSE /\ log' = log \o <<Request("list", st, ""), Request("create_folder", created, "")>>
               /\ IF created >= 400 THEN Raise(created)
                  ELSE hpc' = "file" /\ UNCHANGED status
    /\ UNCHANGED <<handler, todo, cur, live, dirs, made, results, exc>>
    /\ UNCHANGED <<extractor, call>>

\* lines 422-427 and 528-533: the next file of the request
NextFile ==
    /\ hpc = "file"
    /\ todo > 0
    /\ todo' = todo - 1
    /\ cur' = [NoFile EXCEPT !.file = cur.file + 1]
    /\ \E download_link \in BOOLEAN :
          IF ~download_link THEN Raise(400)
          ELSE hpc' = "download" /\ UNCHANGED status
    /\ UNCHANGED <<handler, live, dirs, made, log, results, exc>>
    /\ UNCHANGED <<extractor, call>>

\* lines 479 and 600: no file is left
Return ==
    /\ hpc = "file"
    /\ todo = 0
    /\ hpc' = "done"
    /\ UNCHANGED <<handler, todo, cur, live, dirs, made, log, results, exc, status>>
    /\ UNCHANGED <<extractor, call>>

\* lines 429 and 535 with 70-85: the link is refused or answers with an error
\* before a file is made; otherwise the temporary file is made and filled, up to
\* the size limit
Download ==
    /\ hpc = "download"
    /\ \E outcome \in {"refused", "too_large", "ok"} :
          CASE outcome = "refused" ->
                  /\ Raise(400)
                  /\ UNCHANGED <<cur, live, made>>
            [] outcome = "too_large" ->
                  /\ made' = made + 1
                  /\ live' = live \cup {made + 1}
                  /\ Raise(413)
                  /\ UNCHANGED cur
            [] outcome = "ok" ->
                  /\ made' = made + 1
                  /\ live' = live \cup {made + 1}
                  /\ cur' = [cur EXCEPT !.tmp_path = made + 1]
                  /\ hpc' = "expand"
                  /\ UNCHANGED status
    /\ UNCHANGED <<handler, todo, dirs, log, results, exc>>
    /\ UNCHANGED <<extractor, call>>

\* lines 115-121 and 165-171 for a document of n pages
PageLimitError(n) == IF n = 0 THEN 400 ELSE IF n > MAX_SLIDE_PAGES THEN 413 ELSE 0

\* the temporary files first + 1 .. first + k
NewFiles(first_free, k) == {first_free + i : i \in 1..k}
ItemPaths(first_free, k) == [i \in 1..k |-> first_free + i]

\* lines 430 and 536 with 298-322, for a PDF of n pages that gives k images
ExpandPdf ==
    /\ hpc = "expand"
    /\ \E n \in {0, 1, MAX_SLIDE_PAGES + 1}, k \in 1..MaxItems :
          IF PageLimitError(n) # 0
          THEN /\ Raise(PageLimitError(n))
               /\ UNCHANGED <<cur, live, made>>
          ELSE /\ made' = made + k
               /\ live' = live \cup NewFiles(made, k)
               /\ cur' = [cur EXCEPT !.kind = "pdf",
                                     !.expanded = ItemPaths(made, k),
                                     !.cleanup_files = {cur.tmp_path} \cup NewFiles(made, k)]
               /\ hpc' = "item"
               /\ UNCHANGED status
    /\ UNCHANGED <<handler, todo, dirs, log, results, exc>>
    /\ UNCHANGED <<extractor, call>>

\* lines 314-319 with 263-295: a presentation is converted in a new directory and
\* the PDF rendered page by page
ExpandPresentation ==
    /\ hpc = "expand"
    /\ \E outcome \in {"no_soffice", "failed", "ok"}, n \in {0, 1}, k \in 1..MaxItems :
          CASE outcome = "no_soffice" ->
                  /\ Raise(422)
                  /\ UNCHANGED <<cur, live, dirs, made>>
            [] outcome = "failed" ->
                  /\ made' = made + 1
                  /\ dirs' = dirs \cup {made + 1}
                  /\ Raise(500)
                  /\ UNCHANGED <<cur, live>>
            [] outcome = "ok" /\ PageLimitError(n) # 0 ->
                  /\ made' = made + 1
                  /\ dirs' = dirs \cup {made + 1}
                  /\ Raise(PageLimitError(n))
                  /\ UNCHANGED <<cur, live>>
            [] outcome = "ok" /\ PageLimitError(n) = 0 ->
                  /\ made' = made + 1 + k
                  /\ dirs' = dirs \cup {made + 1}
                  /\ live' = live \cup NewFiles(made + 1, k)
                  /\ cur' = [cur EXCEPT !.kind = "presentation",
                                        !.expanded = ItemPaths(made + 1, k),
                                        !.cleanup_files = {cur.tmp_path} \cup NewFiles(made + 1, k),
                                        !.cleanup_dirs = {made + 1}]
                  /\ hpc' = "item"
                  /\ UNCHANGED status
    /\ UNCHANGED <<handler, todo, log, results, exc>>
    /\ UNCHANGED <<extractor, call>>

\* line 321: any other file is uploaded as it is
ExpandOther ==
    /\ hpc = "expand"
    /\ cur' = [cur EXCEPT !.kind = "other",
                          !.expanded = <<cur.tmp_path>>,
                          !.cleanup_files = {cur.tmp_path}]
    /\ hpc' = "item"
    /\ UNCHANGED <<handler, todo, live, dirs, made, log, results, exc, status>>
    /\ UNCHANGED <<extractor, call>>

\* an HTTPException raised inside the try of lines 431 and 537
RaiseInTry(code) == hpc' = "finally" /\ exc' = code

\* a slip of lines 447-452: the answer of the create request not looked at
NotionCreateUnchecked ==
    /\ handler = "notion"
    /\ hpc = "item"
    /\ \E st \in Statuses, id \in UploadIds :
          /\ log' = Append(log, Request("create", st, id))
          /\ cur' = [cur EXCEPT !.upload_id = id]
          /\ hpc' = "send"
          /\ UNCHANGED exc
    /\ UNCHANGED <<handler, todo, live, dirs, made, results, status>>
    /\ UNCHANGED <<extractor, call>>

\* lines 432-452: step 1, the upload object is created
NotionCreate ==
    /\ handler = "notion"
    /\ hpc = "item"
    /\ \E st \in Statuses, id \in UploadIds :
          /\ log' = Append(log, Request("create", st, id))
          /\ IF st >= 400 THEN RaiseInTry(st) /\ UNCHANGED cur
             ELSE IF id = "" THEN RaiseInTry(502) /\ UNCHANGED cur
             ELSE /\ cur' = [cur EXCEPT !.upload_id = id]
                  /\ hpc' = "send"
                  /\ UNCHANGED exc
    /\ UNCHANGED <<handler, todo, live, dirs, made, results, status>>
    /\ UNCHANGED <<extractor, call>>

\* the step of the loops of lines 432 and 538: the next item, or the end of the try
NextItem == IF cur.item + 1 < Len(cur.expanded) THEN "item" ELSE "finally"

\* lines 454-475: step 2, the bytes are sent, and the result is recorded
NotionSend ==
    /\ handler = "notion"
    /\ hpc = "send"
    /\ \E st \in Statuses :
          /\ log' = Append(log, Request("send", st, cur.upload_id))
          /\ IF st >= 400 THEN RaiseInTry(st) /\ UNCHANGED <<cur, results>>
             ELSE /\ results' = Append(results, [file |-> cur.file, item |-> cur.item + 1,
                                                 id |-> cur.upload_id])
                  /\ cur' = [cur EXCEPT !.item = cur.item + 1]
                  /\ hpc' = NextItem
                  /\ UNCHANGED exc
    /\ UNCHANGED <<handler, todo, live, dirs, made, status>>
    /\ UNCHANGED <<extractor, call>>

\* lines 538-566: the file is read and uploaded
DriveUpload ==
    /\ handler = "drive"
    /\ hpc = "item"
    /\ \E st \in Statuses, id \in UploadIds :
          /\ log' = Append(log, Request("upload", st, id))
          /\ IF st >= 400 THEN RaiseInTry(st) /\ UNCHANGED cur
             ELSE IF id = "" THEN RaiseInTry(502) /\ UNCHANGED cur
             ELSE /\ cur' = [cur EXCEPT !.upload_id = id]
                  /\ hpc' = "permission"
                  /\ UNCHANGED exc
    /\ UNCHANGED <<handler, todo, live, dirs, made, results, status>>
    /\ UNCHANGED <<extractor, call>>

\* lines 568-574: the file is made public
DrivePermission ==
    /\ handler = "drive"
    /\ hpc = "permission"
    /\ \E st \in Statuses :
          /\ log' = Append(log, Request("permission", st, cur.upload_id))
          /\ IF st >= 400 THEN RaiseInTry(st)
             ELSE hpc' = "meta" /\ UNCHANGED exc
    /\ UNCHANGED <<handler, todo, cur, live, dirs, made, results, status>>
    /\ UNCHANGED <<extractor, call>>

\* lines 576-596: the links are read and the result is recorded
DriveMeta ==
    /\ handler = "drive"
    /\ hpc = "meta"
    /\ \E st \in Statuses :
          /\ log' = Append(log, Request("meta", st, cur.upload_id))
          /\ IF st >= 400 THEN RaiseInTry(st) /\ UNCHANGED <<cur, results>>
             ELSE /\ results' = Append(results, [file |-> cur.file, item |-> cur.item + 1,
                                                 id |-> cur.upload_id])
                  /\ cur' = [cur EXCEPT !.item = cur.item + 1]
                  /\ hpc' = NextItem
                  /\ UNCHANGED exc
    /\ UNCHANGED <<handler, todo, live, dirs, made, status>>
    /\ UNCHANGED <<extractor, call>>

\* lines 476-477 and 597-598 with 88-95: the finally clause, after which the
\* exception, if there is one, leaves the handler
Cleanup ==
    /\ hpc = "finally"
    /\ live' = live \ cur.cleanup_files
    /\ dirs' = dirs \ cur.cleanup_dirs
    /\ IF exc # 0
       THEN hpc' = "raised" /\ status' = exc
       ELSE hpc' = "file" /\ UNCHANGED status
    /\ exc' = 0
    /\ UNCHANGED <<handler, todo, cur, made, log, results>>
    /\ UNCHANGED <<extractor, call>>

NextUpload ==
    \/ Begin
    \/ FindFolder
    \/ NextFile
    \/ Return
    \/ Download
    \/ ExpandPdf
    \/ ExpandPresentation
    \/ ExpandOther
    \/ NotionCreate
    \/ NotionSend
    \/ DriveUpload
    \/ DrivePermission
    \/ DriveMeta
    \/ Cleanup

SpecUpload == InitUpload /\ [][NextUpload]_vars

\* the masks the contour model is exact for
MaskAssumption == pc = "contours" => MaskAssumed(page, mask)

(***************************************************************************)
(* Properties.                                                             *)
(***************************************************************************)
KeptIndices == DOMAIN kept

\* the contours of the page whose padded box is b
SourcesOf(b) == {i \in DOMAIN contours : Padded(page, contours[i]) = b}

\* C1 as stated: every page keeps at most 6 boxes and every kept box, as emitted
\* (padded and clamped), has width >= 140, height >= 100 and an area between
\* 2 % and 90 % of the page.
C1_AsStated ==
    pc = "crop" =>
        /\ Len(kept) <= 6
        /\ \A i \in KeptIndices :
              /\ Width(kept[i]) >= 140
              /\ Height(kept[i]) >= 100
              /\ 2 * (page.w * page.h) <= Area(kept[i]) * 100
              /\ Area(kept[i]) * 100 <= 90 * (page.w * page.h)

\* C1 amended: every page keeps at most 6 boxes; every kept box has width >= 140,
\* height >= 100 and at least 2 % of the page, and is the padded box of a contour
\* rectangle of width >= 140, height >= 100 and between 2 % and 90 % of the page:
\* the upper limit holds before padding, not for the emitted box.
C1_KeptBoxes ==
    pc = "crop" =>
        /\ Len(kept) <= 6
        /\ \A i \in KeptIndices :
              /\ Width(kept[i]) >= 140
              /\ Height(kept[i]) >= 100
              /\ 2 * (page.w * page.h) <= Area(kept[i]) * 100
              /\ \E j \in SourcesOf(kept[i]) :
                    /\ contours[j].bw >= 140
                    /\ contours[j].bh >= 100
                    /\ 2 * (page.w * page.h) <= contours[j].bw * contours[j].bh * 100
                    /\ contours[j].bw * contours[j].bh * 100 <= 90 * (page.w * page.h)

\* six boxes kept out of more, one of them above 90 % of the page after padding
C1_Witness ==
    /\ pc = "crop"
    /\ Len(kept) = 6
    /\ Len(boxes) > 6
    /\ \E i \in KeptIndices : Area(kept[i]) * 100 > 90 * (page.w * page.h)

\* C2: no two distinct kept boxes of a page have IoU (as _iou computes it) above 0.45.
C2_NoOverlap ==
    pc = "crop" =>
        \A i, j \in KeptIndices :
            i # j => iou(kept[i], kept[j]).num * 100 <= 45 * iou(kept[i], kept[j]).den

\* two kept boxes that do intersect, and a box dropped for its overlap
C2_Witness ==
    /\ pc = "crop"
    /\ Len(kept) < 6
    /\ Len(boxes) > Len(kept)
    /\ \E i, j \in KeptIndices : i # j /\ iou(kept[i], kept[j]).num > 0

\* C3 as stated: every returned box has, after padding and clamping, its top edge at
\* or below 0.04*h and its bottom edge at or above 0.98*h.
C3_AsStated ==
    pc = "crop" =>
        \A i \in KeptIndices :
            /\ kept[i].y0 * 100 >= 4 * page.h
            /\ kept[i].y1 * 100 <= 98 * page.h

\* C3 amended: the band test is on the contour rectangle before padding: its top
\* edge is >= int(0.04*h) and its bottom edge <= int(0.98*h).  The returned box may
\* enter either band by the vertical padding max(8, int(0.01*h)) and no more.
C3_Bands ==
    pc = "crop" =>
        LET h == page.h
            pad == IF h \div 100 > 8 THEN h \div 100 ELSE 8
        IN  \A i \in KeptIndices :
               /\ kept[i].y0 >= (4 * h) \div 100 - pad
               /\ kept[i].y1 <= (98 * h) \div 100 + pad
               /\ \E j \in DOMAIN contours :
                     /\ contours[j].y >= (4 * h) \div 100
                     /\ contours[j].y + contours[j].bh <= (98 * h) \div 100
                     /\ kept[i].y0 = IF contours[j].y - pad > 0 THEN contours[j].y - pad ELSE 0
                     /\ kept[i].y1 = IF contours[j].y + contours[j].bh + pad < h
                                     THEN contours[j].y + contours[j].bh + pad ELSE h

\* a kept box whose top edge is inside the header band
C3_Witness ==
    /\ pc = "crop"
    /\ \E i \in KeptIndices : kept[i].y0 * 100 < 4 * page.h

InPage(b) == /\ 0 <= b.x0 /\ b.x0 < b.x1 /\ b.x1 <= page.w
             /\ 0 <= b.y0 /\ b.y0 < b.y1 /\ b.y1 <= page.h

\* C5: every box appended to the page's box list, and so every kept and emitted
\* box, has 0 <= x0 < x1 <= w and 0 <= y0 < y1 <= h: its crop is not empty.
C5_BoxesInPage ==
    /\ pc \in {"dedup", "crop"} => \A i \in DOMAIN boxes : InPage(boxes[i])
    /\ pc = "crop" => \A i \in KeptIndices : InPage(kept[i]) /\ CropSize(page, kept[i]) > 0

\* a kept box that the clamp cut on both sides
C5_Witness ==
    /\ pc = "crop"
    /\ \E i \in KeptIndices, j \in DOMAIN contours :
          /\ kept[i] = Padded(page, contours[j])
          /\ kept[i].x0 = 0
          /\ kept[i].x1 = page.w
          /\ contours[j].x + contours[j].bw + PadX(page) > page.w

\* the images of the returned list that show page p (from 1): its crops and its
\* full-page export
CropsOf(p) == {i \in DOMAIN images : \E k \in 1..MaxKept :
                   images[i].name = DiagramName(Base(source_name), p - 1, k - 1)}
FullPageOf(p) == {i \in DOMAIN images : images[i].name = SlideName(Base(source_name), p - 1)}

Columns(p) == {0} \cup {q.x0 : q \in p.patches} \cup {q.x1 : q \in p.patches}
                  \cup {TextRect(p, p.blocks[i]).x0 : i \in DOMAIN p.blocks}
                  \cup {TextRect(p, p.blocks[i]).x1 : i \in DOMAIN p.blocks}
Rows(p) == {0} \cup {q.y0 : q \in p.patches} \cup {q.y1 : q \in p.patches}
               \cup {TextRect(p, p.blocks[i]).y0 : i \in DOMAIN p.blocks}
               \cup {TextRect(p, p.blocks[i]).y1 : i \in DOMAIN p.blocks}

\* every ink pixel (gray < 245) of page p lies in the pixel rectangle of a block of
\* type 0.  Between two neighbouring columns and rows nothing changes, so the
\* pixels at their crossings stand for all pixels.
InkCovered(p) ==
    \A x \in Columns(p), y \in Rows(p) :
        (x < p.w /\ y < p.h /\ GrayAt(p, x, y) < 245) =>
            \E i \in DOMAIN p.blocks :
                p.blocks[i].type = 0 /\ Inside(x, y, TextRect(p, p.blocks[i]))

HasInk(p) == \E q \in p.patches : q.g < 245

\* what C6 says of the page while it is processed: the mask is all zero after the
\* text-erase step and the page yields no contour, no candidate box and no kept box
TextOnlyStages ==
    InkCovered(page) =>
        /\ pc = "contours" => \A x \in Columns(page), y \in Rows(page) : MaskAt(mask, x, y) = 0
        /\ pc = "contours" => mask = {}
        /\ pc = "filter" => contours = <<>>
        /\ pc = "dedup" => boxes = <<>>
        /\ pc = "crop" => kept = <<>>

MutualOverlap(bs) ==
    \A i, j \in DOMAIN bs :
        i # j => iou(bs[i], bs[j]).num * 100 > 45 * iou(bs[i], bs[j]).den

\* the first box of the largest area in the list bs
FirstLargest(bs) ==
    bs[CHOOSE i \in DOMAIN bs :
           \A j \in DOMAIN bs : /\ Area(bs[i]) >= Area(bs[j])
                                /\ Area(bs[i]) = Area(bs[j]) => i <= j]

\* C7: from a non-empty list of candidate boxes of which every pair has IoU above
\* 0.45 the deduplication keeps exactly one box, the box of the largest area, and
\* of several boxes of that area the first in discovery order.
C7_OneKept ==
    [][(pc = "dedup" /\ boxes # <<>> /\ MutualOverlap(boxes)) =>
           kept' = <<FirstLargest(boxes)>>]_vars

\* three candidates, each pair overlapping, the two largest of one area and the
\* one found first kept
C7_Witness ==
    /\ pc = "crop"
    /\ Len(boxes) >= 2
    /\ MutualOverlap(boxes)
    /\ Area(boxes[1]) = Area(boxes[2])
    /\ Len(kept) = 1
    /\ \E i, j \in DOMAIN contours :
          /\ i < j
          /\ kept[1] = Padded(page, contours[i])
          /\ boxes[2] = Padded(page, contours[j])

\* the stem of the source name, as Path(name).stem gives it for the names of the model
StemOf(name) ==
    CASE name = <<"d", "e", "c", "k", ".", "p", "d", "f">> -> "deck"
      [] name = <<"d", "e", "c", "k">> -> "deck"
      [] name = <<"a", ".", "b", ".", "p", "d", "f">> -> "a.b"
      [] name = <<".", "p", "d", "f">> -> ".pdf"
      [] name = <<".">> -> ""

ThreeDigits(n) == Digit(n \div 100) \o Digit((n \div 10) % 10) \o Digit(n % 10)
TwoDigits(n) == Digit(n \div 10) \o Digit(n % 10)

\* the entries the crop step appends for the page, kept box i under the name
\* S_p<p>_diagram_<i>.png for page p (from 1)
EmittedAs(S) ==
    /\ Len(output') = Len(output) + Len(kept)
    /\ \A i \in DOMAIN kept :
          /\ output'[Len(output) + i].name =
                 S \o "_p" \o ThreeDigits(page_idx + 1) \o "_diagram_" \o TwoDigits(i) \o ".png"
          /\ output'[Len(output) + i].mime_type = "image/png"

\* C8 as stated: the i-th kept box of the p-th page of a source file with stem S
\* is emitted under the name S_p<p, 3 digits>_diagram_<i, 2 digits>.png with mime
\* type image/png.
C8_AsStated ==
    [][pc = "crop" => EmittedAs(StemOf(source_name))]_vars

\* C8 amended: the same with S the stem of the source name, or "slides" when the
\* stem is empty (a source named "."); page 3, second kept diagram of "deck.pdf"
\* is deck_p003_diagram_02.png.
C8_Names ==
    [][pc = "crop" =>
           /\ EmittedAs(IF StemOf(source_name) = "" THEN "slides" ELSE StemOf(source_name))
           /\ (source_name = DeckPdf /\ page_idx + 1 = 3 /\ Len(kept) >= 2) =>
                  output'[Len(output) + 2].name = "deck_p003_diagram_02.png"]_vars

\* the second diagram of page 3 of deck.pdf, returned after another crop
C8_Witness ==
    /\ pc = "returned"
    /\ source_name = DeckPdf
    /\ Len(output) >= 3
    /\ output[Len(output)].name = "deck_p003_diagram_02.png"
    /\ output[Len(output)].mime_type = "image/png"

NamesOf(out) == [i \in DOMAIN out |-> out[i].name]

Before(bs, i) ==
    Cardinality({j \in DOMAIN bs : \/ Area(bs[j]) > Area(bs[i])
                                   \/ Area(bs[j]) = Area(bs[i]) /\ j < i})

ByAreaStable(bs) == [r \in DOMAIN bs |-> bs[CHOOSE i \in DOMAIN bs : Before(bs, i) = r - 1]]

\* the reference greedy procedure over the first n boxes of the sorted list s
RECURSIVE Greedy(_, _)
Greedy(s, n) ==
    IF n = 0 THEN <<>>
    ELSE LET k == Greedy(s, n - 1)
         IN  IF /\ Len(k) < 6
                /\ \A j \in DOMAIN k : iou(s[n], k[j]).num * 100 <= 45 * iou(s[n], k[j]).den
             THEN Append(k, s[n])
             ELSE k

\* C10: the kept list is what the reference greedy procedure gives: the padded
\* candidates sorted by area descending, ties in discovery order, visited in that
\* order, a box kept iff its IoU with every box kept before is <= 0.45, until 6 are
\* kept.  The kept list is in non-increasing area order and, when there is a
\* candidate, starts with the largest candidate.
C10_ReferenceGreedy ==
    [][pc = "dedup" =>
           /\ kept' = Greedy(ByAreaStable(boxes), Len(boxes))
           /\ \A i \in 1..(Len(kept') - 1) : Area(kept'[i]) >= Area(kept'[i + 1])
           /\ boxes # <<>> =>
                 /\ kept' # <<>>
                 /\ \A j \in DOMAIN boxes : Area(kept'[1]) >= Area(boxes[j])
                 /\ kept'[1] = FirstLargest(boxes)]_vars

\* seven candidates, six kept: boxes of one area kept in discovery order behind a
\* larger box, one box dropped for its overlap
C10_Witness ==
    /\ pc = "crop"
    /\ Len(boxes) > 6
    /\ Len(kept) = 6
    /\ \E i \in 1..5 : Area(kept[i]) > Area(kept[i + 1])
    /\ \E i \in 1..5 : Area(kept[i]) = Area(kept[i + 1])
    /\ \E i \in DOMAIN boxes, j \in DOMAIN kept :
          iou(boxes[i], kept[j]).num * 100 > 45 * iou(boxes[i], kept[j]).den /\ boxes[i] # kept[j]

\* C11: _iou(a, b) is 0 when the intersection has no positive width or no positive
\* height, and otherwise inter / (area_a + area_b - inter) with each area floored
\* at 1; the result lies in [0, 1], the divisor is never 0, and _iou(a, b) = _iou(b, a).
C11_Iou ==
    call.done =>
        LET r == call.a
            s == call.b
            wide == (IF r.x1 <= s.x1 THEN r.x1 ELSE s.x1) - (IF r.x0 >= s.x0 THEN r.x0 ELSE s.x0)
            high == (IF r.y1 <= s.y1 THEN r.y1 ELSE s.y1) - (IF r.y0 >= s.y0 THEN r.y0 ELSE s.y0)
            area_r == IF (r.x1 - r.x0) * (r.y1 - r.y0) < 1 THEN 1 ELSE (r.x1 - r.x0) * (r.y1 - r.y0)
            area_s == IF (s.x1 - s.x0) * (s.y1 - s.y0) < 1 THEN 1 ELSE (s.x1 - s.x0) * (s.y1 - s.y0)
        IN  /\ (wide <= 0 \/ high <= 0) => call.ab.num = 0
            /\ (wide > 0 /\ high > 0) =>
                   /\ area_r + area_s - wide * high # 0
                   /\ call.ab.num * (area_r + area_s - wide * high) = (wide * high) * call.ab.den
            /\ call.ab.den > 0
            /\ 0 <= call.ab.num
            /\ call.ab.num <= call.ab.den
            /\ call.ab.num * call.ba.den = call.ba.num * call.ab.den

\* two different boxes that overlap in part
C11_Witness ==
    /\ call.done
    /\ 0 < call.ab.num
    /\ call.ab.num < call.ab.den
    /\ call.a # call.b

\* a contour rectangle on or inside every limit of the filters
WithinLimits(c) ==
    /\ 2 * (page.w * page.h) <= c.bw * c.bh * 100
    /\ c.bw * c.bh * 100 <= 90 * (page.w * page.h)
    /\ c.bw >= 140
    /\ c.bh >= 100
    /\ c.y * 100 >= 4 * page.h
    /\ (c.y + c.bh) * 100 <= 98 * page.h

AtMost45(b, k) == iou(b, k).num * 100 <= 45 * iou(b, k).den
Exactly45(b, k) == iou(b, k).num * 100 = 45 * iou(b, k).den

\* C12: the limits belong to the accepted side.  A contour rectangle whose ratio is
\* 0.02 or 0.90, whose width is 140 or height 100, whose top edge is at 0.04 h or
\* bottom edge at 0.98 h (and that is inside the other limits) becomes a candidate
\* box, and a candidate whose IoU with each kept box is at most 0.45, with some of
\* them exactly 0.45, is kept as long as fewer than 6 are kept.
C12_LimitsIncluded ==
    /\ pc \in {"dedup", "crop"} =>
          \A j \in DOMAIN contours :
              WithinLimits(contours[j]) =>
                  \E i \in DOMAIN boxes : boxes[i] = Padded(page, contours[j])
    /\ pc = "crop" =>
          \A i \in DOMAIN boxes :
              (/\ Len(kept) < 6
               /\ \A j \in DOMAIN kept : kept[j] # boxes[i] => AtMost45(boxes[i], kept[j]))
              => \E j \in DOMAIN kept : kept[j] = boxes[i]

\* a page with a contour on each limit, all of them kept, two of the kept boxes
\* with IoU 0.45
C12_Witness ==
    /\ pc = "crop"
    /\ \E j \in DOMAIN contours :
          /\ contours[j].bw * contours[j].bh * 100 = 2 * (page.w * page.h)
          /\ contours[j].bh = 100
          /\ contours[j].y * 100 = 4 * page.h
          /\ \E i \in DOMAIN kept : kept[i] = Padded(page, contours[j])
    /\ \E j \in DOMAIN contours :
          /\ contours[j].bw * contours[j].bh * 100 = 90 * (page.w * page.h)
          /\ (contours[j].y + contours[j].bh) * 100 = 98 * page.h
          /\ \E i \in DOMAIN kept : kept[i] = Padded(page, contours[j])
    /\ \E j \in DOMAIN contours :
          /\ contours[j].bw = 140
          /\ \E i \in DOMAIN kept : kept[i] = Padded(page, contours[j])
    /\ \E i, j \in DOMAIN kept : i # j /\ Exactly45(kept[i], kept[j])

\* a page coordinate v scaled by n / d to pixels, the fraction dropped
Scaled(v, n, d) == IF v * n >= 0 THEN (v * n) \div d ELSE 0 - ((0 - v * n) \div d)
Bounded(v, hi) == IF v < 0 THEN 0 ELSE IF v > hi THEN hi ELSE v

\* the pixel rectangle of a block: its page box scaled by sx and sy, grown by 8
\* pixels on every side and clamped to the raster
PixelRect(p, blk) ==
    [x0 |-> Bounded(Scaled(blk.bbox[1], p.w, p.page_w) - 8, p.w),
     y0 |-> Bounded(Scaled(blk.bbox[2], p.h, p.page_h) - 8, p.h),
     x1 |-> Bounded(Scaled(blk.bbox[3], p.w, p.page_w) + 8, p.w),
     y1 |-> Bounded(Scaled(blk.bbox[4], p.h, p.page_h) + 8, p.h)]

TextRects(p) == {PixelRect(p, p.blocks[i]) : i \in {j \in DOMAIN p.blocks : p.blocks[j].type = 0}}

\* the columns and rows at which the raster, the mask or a text rectangle changes:
\* the pixels at their crossings stand for all pixels of the raster
GridColumns(p, m) ==
    {x \in {0} \cup {q.x0 : q \in p.patches} \cup {q.x1 : q \in p.patches}
                \cup {b.x0 : b \in m} \cup {b.x1 : b \in m}
                \cup {r.x0 : r \in TextRects(p)} \cup {r.x1 : r \in TextRects(p)} :
        0 <= x /\ x < p.w}
GridRows(p, m) ==
    {y \in {0} \cup {q.y0 : q \in p.patches} \cup {q.y1 : q \in p.patches}
                \cup {b.y0 : b \in m} \cup {b.y1 : b \in m}
                \cup {r.y0 : r \in TextRects(p)} \cup {r.y1 : r \in TextRects(p)} :
        0 <= y /\ y < p.h}

\* C13: after the text-erase step the mask is 0 at every pixel of the pixel
\* rectangle of every text block (type 0), and every pixel outside all these
\* rectangles has its threshold value, 255 iff gray < 245.  A block partly or
\* wholly beyond the page is clamped: nothing is written outside the mask.
C13_TextErase ==
    pc = "contours" =>
        /\ \A x \in GridColumns(page, mask), y \in GridRows(page, mask) :
              IF \E r \in TextRects(page) : r.x0 <= x /\ x < r.x1 /\ r.y0 <= y /\ y < r.y1
              THEN MaskAt(mask, x, y) = 0
              ELSE MaskAt(mask, x, y) = IF GrayAt(page, x, y) < 245 THEN 255 ELSE 0
        /\ \A b \in mask : 0 <= b.x0 /\ b.x1 <= page.w /\ 0 <= b.y0 /\ b.y1 <= page.h

\* a page with a text block that begins left of the page and one beyond the page:
\* some ink erased, some ink left, some of it under an image block
C13_Witness ==
    /\ pc = "contours"
    /\ \E i \in DOMAIN page.blocks : page.blocks[i].type = 0 /\ page.blocks[i].bbox[1] < 0
    /\ \E i \in DOMAIN page.blocks : page.blocks[i].type = 0 /\ page.blocks[i].bbox[1] > page.page_w
    /\ \E x \in GridColumns(page, mask), y \in GridRows(page, mask) :
          GrayAt(page, x, y) < 245 /\ MaskAt(mask, x, y) = 0
    /\ \E i \in DOMAIN page.blocks :
          /\ page.blocks[i].type # 0
          /\ MaskAt(mask, PixelRect(page, page.blocks[i]).x0, PixelRect(page, page.blocks[i]).y0) = 255

NameFor(p, k) ==
    (IF StemOf(source_name) = "" THEN "slides" ELSE StemOf(source_name))
        \o "_p" \o ThreeDigits(p) \o "_diagram_" \o TwoDigits(k) \o ".png"

\* every entry of the list is diagram k of a page p: diagram 1 comes first or right
\* behind an entry of an earlier page, diagram k > 1 right behind diagram k - 1 of
\* the same page
WellNumbered(out) ==
    \A i \in DOMAIN out :
        \E p \in 1..page_count, k \in 1..6 :
            /\ out[i].name = NameFor(p, k)
            /\ k = 1 => \/ i = 1
                        \/ \E q \in 1..(p - 1), j \in 1..6 : out[i - 1].name = NameFor(q, j)
            /\ k > 1 => i > 1 /\ out[i - 1].name = NameFor(p, k - 1)

\* C17: the list of the extractor is in increasing page order and, within a page,
\* in increasing diagram index; the indices of a page that contributes k >= 1
\* entries are 1..k without gaps, every kept box giving one entry, and k <= 6.
C17_Ordered ==
    [][pc = "crop" =>
           /\ Len(output') = Len(output) + Len(kept)
           /\ Len(kept) <= 6
           /\ WellNumbered(output')]_vars

\* two diagrams of page 1 and one of page 3 returned, none of page 2
C17_Witness ==
    /\ pc = "returned"
    /\ Len(output) = 3
    /\ output[1].name = NameFor(1, 1)
    /\ output[2].name = NameFor(1, 2)
    /\ output[3].name = NameFor(3, 1)

\* C15 as stated: in both handlers every temporary file made for an input file
\* (the downloaded file and every crop or page image) is deleted by the time the
\* handler stops working on that file, whether it goes on to the next file,
\* returns, or ends with an exception raised at any step.
C15_AsStated ==
    hpc \in {"file", "raised", "done"} => live = {}

\* C16: in notion_file_uploads a send request follows right upon the create
\* request of the same item, which returned a status < 400 and a non-empty id; a
\* result is recorded only for an item whose send returned a status < 400; and a
\* failing create or send is the last request of the handler.
C16_CreateThenSend ==
    handler = "notion" =>
        /\ \A i \in DOMAIN log :
              log[i].op = "send" =>
                  /\ i > 1
                  /\ log[i - 1].op = "create"
                  /\ log[i - 1].file = log[i].file
                  /\ log[i - 1].item = log[i].item
                  /\ log[i - 1].status < 400
                  /\ log[i - 1].id # ""
                  /\ log[i].id = log[i - 1].id
        /\ \A r \in DOMAIN results :
              \E i \in DOMAIN log : /\ log[i].op = "send"
                                    /\ log[i].status < 400
                                    /\ log[i].file = results[r].file
                                    /\ log[i].item = results[r].item
        /\ Len(results) = Cardinality({i \in DOMAIN log : log[i].op = "send" /\ log[i].status < 400})
        /\ \A i \in DOMAIN log :
              (log[i].status >= 400 \/ (log[i].op = "create" /\ log[i].id = "")) =>
                  /\ i = Len(log)
                  /\ hpc \in {"finally", "raised"}

\* the first file uploaded, the second file's first item uploaded and the send of
\* its second item refused: the handler has raised
C16_Witness ==
    /\ handler = "notion"
    /\ hpc = "raised"
    /\ Len(results) >= 2
    /\ log[Len(log)].op = "send"
    /\ log[Len(log)].status >= 400
    /\ log[Len(log)].file = 2
    /\ log[Len(log)].item = 2
    /\ live = {}

====
